---- MODULE Spec2Model ----
(***************************************************************************)
(* Model of PortAudioCaptureApp:                                           *)
(*   - CommandLine::parse      (CommandLine.cpp 75-175)   Spec             *)
(*   - CommandLine::printHelp  (CommandLine.cpp 20-73)    HelpSpec         *)
(*   - the capture loop of main (mainfile.cpp 269-318)    CaptureSpec      *)
(* Strings are sequences of one-character strings, positions are 0-based   *)
(* as in std::string.                                                      *)
(***************************************************************************)
EXTENDS Integers, Sequences, FiniteSets, TLC

VARIABLES
    \* ---- CommandLine object and the caller-owned destinations
    mArguments,     \* registry: sequence of [mFlags, mValue, mHelp]
    m_argv,         \* m_argv[k+1] models argv[k], argv[0] is the program name
    i,              \* parse(): index of the token being examined
    pc,             \* parse(): "idle" | "loop" | "returned" | "thrown"
    dest,           \* caller-owned storage the bound pointers point to
    what,           \* message of the std::runtime_error thrown, <<>> if none
    cerr,           \* flags named by the unknown-argument diagnostics
    \* ---- history of parse() (observation only)
    writes,         \* log of destination writes: [tok, ptr, val]
    examined,       \* argv indices examined as a flag, in order
    dest0,          \* destinations at entry of parse()
    \* ---- CommandLine::printHelp
    hpc,            \* "idle" | "begin" | "arg" | "wrap" | "returned"
    argIdx,         \* index of the argument being printed (1-based)
    maxFlagLength,
    spacePos,
    lineWidth,
    sstr,           \* content of the std::stringstream of the pending line
    os,             \* lines written: [arg, text]
    \* ---- capture loop of main
    cpc,            \* "idle" | "start" | "while" | "read" | "dispatch" |
                    \* "stop" | "close" | "terminate" | "return0" | "return1"
    g_stop,
    r,              \* result of the last Pa_ReadStream
    nRead,          \* Pa_ReadStream calls that returned
    nOk,            \* ... of which returned paNoError
    nProcess,       \* process_buffer invocations
    readAfterStop,  \* Pa_ReadStream returns since g_stop was set
    writeAfterStop, \* process_buffer invocations since g_stop was set
    paCalls         \* Pa_StopStream / Pa_CloseStream / Pa_Terminate calls

parseVars   == <<mArguments, m_argv, i, pc, dest, what, cerr,
                 writes, examined, dest0>>
helpVars    == <<hpc, argIdx, maxFlagLength, spacePos, lineWidth, sstr, os>>
captureVars == <<cpc, g_stop, r, nRead, nOk, nProcess,
                 readAfterStop, writeAfterStop, paCalls>>
vars        == <<parseVars, helpVars, captureVars>>

----------------------------------------------------------------------------
(* std::string                                                             *)

\* size_t arithmetic is modular; the width is 30 bits here so that every
\* intermediate sum stays inside the model checker's integers.
SizeMod == 2^30
npos    == SizeMod - 1

Min(a, b) == IF a < b THEN a ELSE b

\* s.size()
Size(s) == Len(s)

\* s.substr(pos, n), pos <= size
Substr(s, pos, n) == SubSeq(s, pos + 1, Min(pos + n, Len(s)))

\* s.find(c, from) / s.find_first_of(c, from): first position >= from, or npos
StrFind(s, c, from) ==
    LET hits == {p \in 0..(Len(s) - 1) : p >= from /\ s[p + 1] = c}
    IN  IF hits = {} THEN npos
        ELSE CHOOSE p \in hits : \A q \in hits : p <= q

\* std::find(v.begin(), v.end(), x) != v.end()
Contains(v, x) == \E k \in 1..Len(v) : v[k] = x

Repeat(c, n) == [k \in 1..n |-> c]

----------------------------------------------------------------------------
(* CommandLine: registration (addArgument) and the storage it binds        *)

\* alternatives of CommandLine::Value that parse() tells apart, plus the
\* empty std::optional
ValueKinds == {"bool", "int", "string"}
NoValue    == [kind |-> "none", ptr |-> "none"]
Bound(kind, ptr) == [kind |-> kind, ptr |-> ptr]

\* addArgument(flags, value, help): mArguments.emplace_back(...)
addArgument(args, flags, value, help) ==
    Append(args, [mFlags |-> flags, mValue |-> value, mHelp |-> help])

F_v == <<"-", "v">>
F_r == <<"-", "r">>
F_n == <<"-", "n">>
F_h == <<"-", "h">>
F_z == <<"-", "z">>

S_true  == <<"t", "r", "u", "e">>
S_false == <<"f", "a", "l", "s", "e">>

\* Two registration sequences a caller can make.  Aliases are not checked
\* for uniqueness by addArgument, so "-h" and "-r" are registered twice.
RegistryA ==
    addArgument(addArgument(addArgument(addArgument(addArgument(<<>>,
        <<F_v>>,      Bound("bool", "verbose"),  <<>>),
        <<F_r>>,      Bound("int", "rate"),      <<>>),
        <<F_n>>,      Bound("string", "name"),   <<>>),
        <<F_h>>,      NoValue,                   <<>>),
        <<F_h, F_r>>, Bound("string", "alt"),    <<>>)

RegistryB ==
    addArgument(addArgument(addArgument(addArgument(addArgument(<<>>,
        <<F_v>>,      Bound("bool", "verbose"),  <<>>),
        <<F_n>>,      Bound("string", "name"),   <<>>),
        <<F_h, F_r>>, Bound("string", "alt"),    <<>>),
        <<F_r>>,      Bound("int", "rate"),      <<>>),
        <<F_h>>,      NoValue,                   <<>>)

Registries == {RegistryA, RegistryB}

\* caller-owned variables before parse()
InitialDests ==
    [verbose |-> FALSE, rate |-> 7, name |-> <<"d">>, alt |-> <<"e">>]

\* command lines: argv[0] followed by at most MaxArgs tokens
MaxArgs == 2

\* Tokens: each registered flag bare and with the attached values that
\* tell its cases apart; the presence-only "-h" and the unregistered "-z"
\* bare and with a value; "12" is a bare value as in "-r 12".
Attach(f, values) == {f \o <<"=">> \o v : v \in values}
BoolTexts   == {<<>>, S_true, S_false, <<"1", "2">>}
IntTexts    == {<<>>, <<"1", "2">>, <<"a">>, <<"1", "a">>, <<"-", "1", "a">>,
                <<"a", "=", "1">>}
StringTexts == {<<>>, <<"a">>, <<"a", "=", "1">>}
Tokens ==  {F_v, F_r, F_n, F_h, F_z, <<"1", "2">>}
      \cup Attach(F_v, BoolTexts)
      \cup Attach(F_r, IntTexts)
      \cup Attach(F_n, StringTexts)
      \cup Attach(F_h, {<<"a">>})
      \cup Attach(F_z, {<<"a">>})
ProgramName == <<"a", "p", "p">>

TokenSeqs(n) == UNION {[1..k -> Tokens] : k \in 0..n}

----------------------------------------------------------------------------
(* CommandLine::parse                                                      *)

\* lines 86-97: the flag is the token up to its first '=', if any
FlagOf(tok) ==
    LET equalPos == StrFind(tok, "=", 0)
    IN  IF equalPos # npos THEN Substr(tok, 0, equalPos) ELSE tok

\* variant: the value taken after the last '=' (rfind)
ValueOf_rfind(tok) ==
    LET eqs == {p \in 0..(Len(tok) - 1) : tok[p + 1] = "="}
    IN  IF eqs = {} THEN <<>>
        ELSE Substr(tok, (CHOOSE p \in eqs : \A q \in eqs : q <= p) + 1, npos)
\* lines 87-97: the value is what follows the first '=', else empty
ValueOf(tok) ==
    LET equalPos == StrFind(tok, "=", 0)
    IN  IF equalPos # npos THEN Substr(tok, equalPos + 1, npos) ELSE <<>>

\* variant: lines 99-103 compiled in
ValueIsSeparate_enabled(argv, k) ==
    /\ StrFind(argv[k + 1], "=", 0) = npos
    /\ k + 1 < Len(argv)
\* lines 88, 98-103, 125-128: the branch that sets it is commented out
ValueIsSeparate(argv, k) == FALSE

\* variant: the loop without its break, the last match wins
FindArgument_last(args, flag) ==
    LET hits == {k \in 1..Len(args) : Contains(args[k].mFlags, flag)}
    IN  IF hits = {} THEN 0 ELSE CHOOSE k \in hits : \A q \in hits : q <= k
\* lines 108-112, 155: index of the first argument whose mFlags holds the
\* flag, 0 when the loop ends without a match
FindArgument(args, flag) ==
    LET hits == {k \in 1..Len(args) : Contains(args[k].mFlags, flag)}
    IN  IF hits = {} THEN 0 ELSE CHOOSE k \in hits : \A q \in hits : k <= q

\* variant: only "true" and no value give true
BoolOf_onlyTrue(value) == value = S_true \/ value = <<>>
\* line 129: the bool written for an attached value
BoolOf(value) == value # S_false

\* line 132: a non-bool destination needs a value
MissingValue(kind, value) == kind # "bool" /\ value = <<>>

\* variant: the message without the flag
ErrorMessage_noFlag(flag) ==
    <<"Failed to parse command line arguments: Missing value for argument \"">>
    \o <<"\"!">>
\* lines 134-136: what() of the runtime_error
ErrorMessage(flag) ==
    <<"Failed to parse command line arguments: Missing value for argument \"">>
    \o flag \o <<"\"!">>

\* lines 147-152: std::stringstream sstr(value); sstr >> *arg for an int.
\* num_get skips leading white space, takes an optional sign and the longest
\* run of decimal digits; with no digit the extraction fails and, since
\* C++11, stores 0 (the program needs C++17 for std::variant).
Digits == <<"0", "1", "2", "3", "4", "5", "6", "7", "8", "9">>
IsDigit(c) == \E d \in 1..10 : Digits[d] = c
DigitVal(c) == (CHOOSE d \in 1..10 : Digits[d] = c) - 1
IsSpace(c) == c \in {" ", "\t", "\n"}
INT_MAX == 2147483647

RECURSIVE SkipSpace(_)
SkipSpace(s) == IF s # <<>> /\ IsSpace(Head(s)) THEN SkipSpace(Tail(s)) ELSE s

RECURSIVE DigitRun(_)
DigitRun(s) ==
    IF s # <<>> /\ IsDigit(Head(s)) THEN <<Head(s)>> \o DigitRun(Tail(s))
    ELSE <<>>

RECURSIVE Magnitude(_, _)
Magnitude(ds, acc) ==
    IF ds = <<>> THEN acc
    ELSE Magnitude(Tail(ds), Min(INT_MAX, acc * 10 + DigitVal(Head(ds))))

\* variant: a failed extraction leaves the destination (C++98 num_get)
StreamExtractInt_keepOnFail(value, old) ==
    LET t    == SkipSpace(value)
        neg  == t # <<>> /\ Head(t) = "-"
        body == IF t # <<>> /\ Head(t) \in {"-", "+"} THEN Tail(t) ELSE t
        ds   == DigitRun(body)
    IN  IF ds = <<>> THEN old
        ELSE IF neg THEN 0 - Magnitude(ds, 0) ELSE Magnitude(ds, 0)
StreamExtractInt(value, old) ==
    LET t    == SkipSpace(value)
        neg  == t # <<>> /\ Head(t) = "-"
        body == IF t # <<>> /\ Head(t) \in {"-", "+"} THEN Tail(t) ELSE t
        ds   == DigitRun(body)
    IN  IF ds = <<>> THEN 0
        ELSE IF neg THEN 0 - Magnitude(ds, 0) ELSE Magnitude(ds, 0)

\* lines 160-164: the unknown-argument diagnostic
Warn(log, flag) == Append(log, flag)

\* variant: an unknown flag is an error
NotFound_throws(same, flag) ==
    [same EXCEPT !.thrown = TRUE, !.what = ErrorMessage(flag)]
\* lines 106, 157-164: no argument holds the flag; the token has no effect
\* but the diagnostic
NotFound(same, flag) == same

\* lines 114-118: the argument has no bound value
PresenceOnly(same, flag, value) == same

\* variant: the destination is assigned before the value is checked
Throw_afterStore(same, flag, mValue) ==
    LET val == IF mValue.kind = "string" THEN <<>> ELSE 0
    IN  [same EXCEPT !.thrown = TRUE, !.what = ErrorMessage(flag),
                     !.dest = [same.dest EXCEPT ![mValue.ptr] = val],
                     !.wrote = <<[ptr |-> mValue.ptr, val |-> val]>>]
\* lines 132-137: the throw leaves parse() before any assignment
Throw(same, flag, mValue) ==
    [same EXCEPT !.thrown = TRUE, !.what = ErrorMessage(flag)]

\* lines 166-173: the index of the next token to examine
NextIndex(k, found, separate) ==
    k + 1 + (IF found /\ separate THEN 1 ELSE 0)

\* lines 86-164, one iteration of the while loop on token argv[k] with the
\* destinations d: what it finds, throws and writes
Effect(args, d, tok) ==
    LET flag  == FlagOf(tok)
        value == ValueOf(tok)
        idx   == FindArgument(args, flag)
        same  == [found |-> idx # 0, thrown |-> FALSE, what |-> <<>>,
                  dest |-> d, wrote |-> <<>>]
        Store(ptr, val) ==
            [same EXCEPT !.dest = [d EXCEPT ![ptr] = val],
                         !.wrote = <<[ptr |-> ptr, val |-> val]>>]
    IN  IF idx = 0 THEN NotFound(same, flag)
        ELSE LET mValue == args[idx].mValue
             IN  IF mValue.kind = "none" THEN PresenceOnly(same, flag, value)
                 ELSE IF mValue.kind = "bool"
                      THEN Store(mValue.ptr, BoolOf(value))
                 ELSE IF MissingValue(mValue.kind, value)
                      THEN Throw(same, flag, mValue)
                 ELSE IF mValue.kind = "string"
                      THEN Store(mValue.ptr, value)
                 ELSE Store(mValue.ptr, StreamExtractInt(value, d[mValue.ptr]))

m_argc == Len(m_argv)

\* line 80
ParseBegin ==
    /\ pc = "idle"
    /\ pc' = "loop"
    /\ i' = 1
    /\ UNCHANGED <<mArguments, m_argv, dest, what, cerr,
                   writes, examined, dest0>>
    /\ UNCHANGED <<helpVars, captureVars>>

\* lines 81-174: one iteration of the loop
ParseToken ==
    /\ pc = "loop"
    /\ i < m_argc
    /\ LET tok == m_argv[i + 1]
           e   == Effect(mArguments, dest, tok)
       IN  /\ dest' = e.dest
           /\ examined' = Append(examined, i)
           /\ writes' = writes \o
                  [k \in 1..Len(e.wrote) |->
                      [tok |-> i, ptr |-> e.wrote[k].ptr, val |-> e.wrote[k].val]]
           /\ IF e.thrown
              THEN /\ pc' = "thrown"
                   /\ what' = e.what
                   /\ UNCHANGED <<i, cerr>>
              ELSE /\ cerr' = IF e.found THEN cerr ELSE Warn(cerr, FlagOf(tok))
                   /\ i' = NextIndex(i, e.found, ValueIsSeparate(m_argv, i))
                   /\ UNCHANGED <<pc, what>>
    /\ UNCHANGED <<mArguments, m_argv, dest0>>
    /\ UNCHANGED <<helpVars, captureVars>>

\* line 81 false: parse() returns
ParseReturn ==
    /\ pc = "loop"
    /\ ~(i < m_argc)
    /\ pc' = "returned"
    /\ UNCHANGED <<mArguments, m_argv, i, dest, what, cerr,
                   writes, examined, dest0>>
    /\ UNCHANGED <<helpVars, captureVars>>

----------------------------------------------------------------------------
(* CommandLine::printHelp                                                  *)

mDescription == <<"d", "e", "m", "o">>

\* line 65: the soft line width
WrapWidth == 60

\* sstr << std::left << std::setw(w) << text
PadLeft(text, w) ==
    IF Len(text) >= w THEN text ELSE text \o Repeat(" ", w - Len(text))

\* lines 32-36: the flags' sizes, plus comma and space each
RECURSIVE FlagLength(_)
FlagLength(flags) ==
    IF flags = <<>> THEN 0
    ELSE Size(Head(flags)) + 2 + FlagLength(Tail(flags))

\* lines 29-39
RECURSIVE MaxFlagLength(_)
MaxFlagLength(args) ==
    IF args = <<>> THEN 0
    ELSE LET rest == MaxFlagLength(Tail(args))
             mine == FlagLength(Head(args).mFlags)
         IN  IF mine > rest THEN mine ELSE rest

\* lines 44-47: flags += flag + ", "
RECURSIVE JoinFlags(_)
JoinFlags(flags) ==
    IF flags = <<>> THEN <<>>
    ELSE Head(flags) \o <<",", " ">> \o JoinFlags(Tail(flags))

\* line 53: flags.substr(0, flags.size() - 2)
FlagColumn(flags) ==
    LET joined == JoinFlags(flags)
    IN  Substr(joined, 0, (Size(joined) - 2) % SizeMod)

\* variant: the width counts the characters appended
LineWidthAdd_counted(width, nextspacePos, pos, size) ==
    width + Min(nextspacePos, size) - pos
\* line 62: lineWidth += nextspacePos - spacePos, in size_t
LineWidthAdd(width, nextspacePos, pos, size) ==
    (width + nextspacePos - pos) % SizeMod

\* line 65
Flushes(width) == width > WrapWidth

\* lines 24-39: the description line and the column width
HelpBegin ==
    /\ hpc = "idle"
    /\ os' = Append(os, [arg |-> 0, text |-> mDescription])
    /\ maxFlagLength' = MaxFlagLength(mArguments)
    /\ argIdx' = 1
    /\ hpc' = "arg"
    /\ UNCHANGED <<spacePos, lineWidth, sstr>>
    /\ UNCHANGED <<parseVars, captureVars>>

\* lines 42-58: the flag column of the next argument
HelpArgument ==
    /\ hpc = "arg"
    /\ argIdx <= Len(mArguments)
    /\ sstr' = PadLeft(FlagColumn(mArguments[argIdx].mFlags), maxFlagLength)
    /\ spacePos' = 0
    /\ lineWidth' = 0
    /\ hpc' = "wrap"
    /\ UNCHANGED <<argIdx, maxFlagLength, os>>
    /\ UNCHANGED <<parseVars, captureVars>>

\* lines 59-70: one iteration of the wrap loop
HelpWrap ==
    /\ hpc = "wrap"
    /\ spacePos # npos
    /\ LET mHelp        == mArguments[argIdx].mHelp
           nextspacePos == StrFind(mHelp, " ", spacePos + 1)
           piece        == Substr(mHelp, spacePos,
                                  (nextspacePos - spacePos) % SizeMod)
           width        == LineWidthAdd(lineWidth, nextspacePos, spacePos,
                                        Size(mHelp))
       IN  /\ spacePos' = nextspacePos
           /\ IF Flushes(width)
              THEN /\ os' = Append(os, [arg |-> argIdx, text |-> sstr \o piece])
                   /\ sstr' = PadLeft(<<" ">>, maxFlagLength - 1)
                   /\ lineWidth' = 0
              ELSE /\ sstr' = sstr \o piece
                   /\ lineWidth' = width
                   /\ UNCHANGED os
    /\ UNCHANGED <<hpc, argIdx, maxFlagLength>>
    /\ UNCHANGED <<parseVars, captureVars>>

\* line 59 false: sstr goes out of scope, the next argument follows
HelpArgumentDone ==
    /\ hpc = "wrap"
    /\ spacePos = npos
    /\ sstr' = <<>>
    /\ argIdx' = argIdx + 1
    /\ hpc' = "arg"
    /\ UNCHANGED <<maxFlagLength, spacePos, lineWidth, os>>
    /\ UNCHANGED <<parseVars, captureVars>>

\* line 42 exhausted, line 73
HelpReturn ==
    /\ hpc = "arg"
    /\ argIdx > Len(mArguments)
    /\ hpc' = "returned"
    /\ UNCHANGED <<argIdx, maxFlagLength, spacePos, lineWidth, sstr, os>>
    /\ UNCHANGED <<parseVars, captureVars>>

\* help texts: up to MaxWords words of the lengths WordLengths, joined by
\* single spaces (a word of length 0 gives leading, trailing and doubled
\* spaces)
MaxWords == 3
WordLengths == {0, 1, 30, 61}
Word(n) == Repeat("a", n)
RECURSIVE Join(_)
Join(ws) ==
    IF Len(ws) = 1 THEN Word(ws[1])
    ELSE Word(ws[1]) \o <<" ">> \o Join(Tail(ws))
HelpTexts == {Join(ws) : ws \in UNION {[1..n -> WordLengths] : n \in 1..MaxWords}}
ShortTexts == {<<>>, <<"a">>, <<"a", " ", "a">>}

F_l    == <<"-", "l">>
F_list == <<"-", "-", "l", "i", "s", "t">>
F_d    == <<"-", "d">>

HelpRegistries ==
         {addArgument(<<>>, <<F_l, F_list>>, NoValue, h) : h \in HelpTexts}
    \cup {addArgument(addArgument(<<>>, <<F_d>>, NoValue, t),
                      <<F_l, F_list>>, NoValue, h) :
             t \in ShortTexts, h \in HelpTexts}

----------------------------------------------------------------------------
(* main: SIGINT handler and the capture loop                               *)

\* results Pa_ReadStream can give; "paOther" stands for every other error
PaResults == {"paNoError", "paInputOverflowed", "paTimedOut", "paOther"}

\* Pa_ReadStream calls one run of the model makes at most
MaxReads == 3

\* mainfile.cpp 284: while (!g_stop)
LoopCondition(stop) == ~stop

\* variant: an overflowed block is processed too
Processes_overflowToo(res) == res \in {"paNoError", "paInputOverflowed"}
\* mainfile.cpp 287-290: process_buffer is called for this result
Processes(res) == res = "paNoError"

\* mainfile.cpp 287-306: the loop goes on after this result
Continues(res) == res \in {"paNoError", "paInputOverflowed", "paTimedOut"}

Bump(n, cond) == IF cond THEN n + 1 ELSE n

\* mainfile.cpp 105-108: the handler runs whenever the signal arrives
Sigint ==
    /\ cpc \in {"start", "while", "read", "dispatch", "stop", "close", "terminate"}
    /\ g_stop' = TRUE
    /\ UNCHANGED <<cpc, r, nRead, nOk, nProcess, readAfterStop,
                   writeAfterStop, paCalls>>
    /\ UNCHANGED <<parseVars, helpVars>>

\* mainfile.cpp 269-281: Pa_StartStream succeeds
StartStream ==
    /\ cpc = "start"
    /\ cpc' = "while"
    /\ UNCHANGED <<g_stop, r, nRead, nOk, nProcess, readAfterStop,
                   writeAfterStop, paCalls>>
    /\ UNCHANGED <<parseVars, helpVars>>

\* mainfile.cpp 270-275: Pa_StartStream fails
StartStreamFails ==
    /\ cpc = "start"
    /\ paCalls' = paCalls \o <<"Pa_CloseStream", "Pa_Terminate">>
    /\ cpc' = "return1"
    /\ UNCHANGED <<g_stop, r, nRead, nOk, nProcess, readAfterStop, writeAfterStop>>
    /\ UNCHANGED <<parseVars, helpVars>>

\* mainfile.cpp 284
LoopTest ==
    /\ cpc = "while"
    /\ cpc' = IF LoopCondition(g_stop) THEN "read" ELSE "stop"
    /\ UNCHANGED <<g_stop, r, nRead, nOk, nProcess, readAfterStop,
                   writeAfterStop, paCalls>>
    /\ UNCHANGED <<parseVars, helpVars>>

\* mainfile.cpp 286: the blocking Pa_ReadStream returns
ReadStream ==
    /\ cpc = "read"
    /\ nRead < MaxReads
    /\ \E res \in PaResults :
          /\ r' = res
          /\ nOk' = Bump(nOk, res = "paNoError")
    /\ nRead' = nRead + 1
    /\ readAfterStop' = Bump(readAfterStop, g_stop)
    /\ cpc' = "dispatch"
    /\ UNCHANGED <<g_stop, nProcess, writeAfterStop, paCalls>>
    /\ UNCHANGED <<parseVars, helpVars>>

\* mainfile.cpp 287-306, with process_buffer (51-66)
Dispatch ==
    /\ cpc = "dispatch"
    /\ nProcess' = Bump(nProcess, Processes(r))
    /\ writeAfterStop' = Bump(writeAfterStop, Processes(r) /\ g_stop)
    /\ cpc' = IF Continues(r) THEN "while" ELSE "stop"
    /\ UNCHANGED <<g_stop, r, nRead, nOk, readAfterStop, paCalls>>
    /\ UNCHANGED <<parseVars, helpVars>>

\* mainfile.cpp 309-311
StopStream ==
    /\ cpc = "stop"
    /\ paCalls' = Append(paCalls, "Pa_StopStream")
    /\ cpc' = "close"
    /\ UNCHANGED <<g_stop, r, nRead, nOk, nProcess, readAfterStop, writeAfterStop>>
    /\ UNCHANGED <<parseVars, helpVars>>

\* mainfile.cpp 313-314
CloseStream ==
    /\ cpc = "close"
    /\ paCalls' = Append(paCalls, "Pa_CloseStream")
    /\ cpc' = "terminate"
    /\ UNCHANGED <<g_stop, r, nRead, nOk, nProcess, readAfterStop, writeAfterStop>>
    /\ UNCHANGED <<parseVars, helpVars>>

\* mainfile.cpp 316-318
Terminate ==
    /\ cpc = "terminate"
    /\ paCalls' = Append(paCalls, "Pa_Terminate")
    /\ cpc' = "return0"
    /\ UNCHANGED <<g_stop, r, nRead, nOk, nProcess, readAfterStop, writeAfterStop>>
    /\ UNCHANGED <<parseVars, helpVars>>

ParseInit ==
    /\ mArguments \in Registries
    /\ m_argv \in {<<ProgramName>> \o t : t \in TokenSeqs(MaxArgs)}
    /\ i = 0
    /\ pc = "idle"
    /\ dest = InitialDests
    /\ dest0 = dest
    /\ what = <<>>
    /\ cerr = <<>>
    /\ writes = <<>>
    /\ examined = <<>>

HelpIdle ==
    /\ hpc = "idle"
    /\ argIdx = 0
    /\ maxFlagLength = 0
    /\ spacePos = 0
    /\ lineWidth = 0
    /\ sstr = <<>>
    /\ os = <<>>

CaptureIdle ==
    /\ cpc = "idle"
    /\ g_stop = FALSE
    /\ r = "none"
    /\ nRead = 0
    /\ nOk = 0
    /\ nProcess = 0
    /\ readAfterStop = 0
    /\ writeAfterStop = 0
    /\ paCalls = <<>>

ParseIdle ==
    /\ m_argv = <<ProgramName>>
    /\ i = 0
    /\ pc = "idle"
    /\ dest = InitialDests
    /\ dest0 = dest
    /\ what = <<>>
    /\ cerr = <<>>
    /\ writes = <<>>
    /\ examined = <<>>

Init == ParseInit /\ HelpIdle /\ CaptureIdle

Next == ParseBegin \/ ParseToken \/ ParseReturn

Spec == Init /\ [][Next]_vars

HelpInit ==
    /\ mArguments \in HelpRegistries
    /\ ParseIdle
    /\ HelpIdle
    /\ CaptureIdle

HelpNext ==
    HelpBegin \/ HelpArgument \/ HelpWrap \/ HelpArgumentDone \/ HelpReturn

HelpSpec == HelpInit /\ [][HelpNext]_vars

\* the process after the SIGINT handler is installed (line 105) and the
\* stream is opened (line 255); the CommandLine object is not used by main
CaptureInit ==
    /\ mArguments = <<>>
    /\ ParseIdle
    /\ HelpIdle
    /\ cpc = "start"
    /\ g_stop = FALSE
    /\ r = "none"
    /\ nRead = 0
    /\ nOk = 0
    /\ nProcess = 0
    /\ readAfterStop = 0
    /\ writeAfterStop = 0
    /\ paCalls = <<>>

CaptureNext ==
    \/ Sigint \/ StartStream \/ StartStreamFails \/ LoopTest \/ ReadStream
    \/ Dispatch \/ StopStream \/ CloseStream \/ Terminate

CaptureSpec == CaptureInit /\ [][CaptureNext]_vars


----------------------------------------------------------------------------
(* Properties of CommandLine::parse.  They are stated on the raw tokens    *)
(* and the registry, not through the operators above.                      *)

ArgvAt(k) == m_argv[k + 1]

\* 1-based position of the first '=' of a token, 0 if it has none
FirstEq(tok) ==
    IF \A p \in 1..Len(tok) : tok[p] # "=" THEN 0
    ELSE CHOOSE p \in 1..Len(tok) :
            tok[p] = "=" /\ \A q \in 1..(p - 1) : tok[q] # "="
FlagPart(tok) ==
    IF FirstEq(tok) = 0 THEN tok ELSE SubSeq(tok, 1, FirstEq(tok) - 1)
Remainder(tok) ==
    IF FirstEq(tok) = 0 THEN <<>> ELSE SubSeq(tok, FirstEq(tok) + 1, Len(tok))

HasAlias(k, flag) ==
    \E a \in 1..Len(mArguments[k].mFlags) : mArguments[k].mFlags[a] = flag
\* the first definition in registration order holding the flag, 0 if none
FirstMatch(flag) ==
    IF \A k \in 1..Len(mArguments) : ~HasAlias(k, flag) THEN 0
    ELSE CHOOSE k \in 1..Len(mArguments) :
            HasAlias(k, flag) /\ \A j \in 1..(k - 1) : ~HasAlias(j, flag)
KindOf(tok) ==
    IF FirstMatch(FlagPart(tok)) = 0 THEN "unknown"
    ELSE mArguments[FirstMatch(FlagPart(tok))].mValue.kind
PtrOf(tok) == mArguments[FirstMatch(FlagPart(tok))].mValue.ptr

Examined  == {examined[n] : n \in 1..Len(examined)}
LastTok   == IF examined = <<>> THEN 0 ELSE examined[Len(examined)]
ThrownAt(k) == pc = "thrown" /\ i = k
WritesOf(k) == SelectSeq(writes, LAMBDA w : w.tok = k)

RECURSIVE Replay(_, _)
Replay(d, log) ==
    IF log = <<>> THEN d
    ELSE Replay([d EXCEPT ![Head(log).ptr] = Head(log).val], Tail(log))
\* the destinations just before and just after token k was processed
Before(k) == Replay(dest0, SelectSeq(writes, LAMBDA w : w.tok < k))
After(k)  == Replay(dest0, SelectSeq(writes, LAMBDA w : w.tok <= k))

\* C1: a token whose flag part first matches a definition bound to a bool
\* makes parse write that bool exactly once, FALSE if and only if the
\* attached value is exactly "false" (TRUE for no value, an empty value,
\* "true" and every other literal), and raises nothing.
C1_BoolCoercion ==
    /\ dest = Replay(dest0, writes)
    /\ \A k \in Examined :
        KindOf(ArgvAt(k)) = "bool" =>
            /\ ~ThrownAt(k)
            /\ WritesOf(k) = <<[tok |-> k, ptr |-> PtrOf(ArgvAt(k)),
                                val |-> (Remainder(ArgvAt(k)) # S_false)]>>
            /\ After(k)[PtrOf(ArgvAt(k))] = (Remainder(ArgvAt(k)) # S_false)

C1_Witness ==
    /\ pc = "returned"
    /\ m_argc = 3
    /\ ArgvAt(1) = F_v \o <<"=", "1", "2">>
    /\ ArgvAt(2) = F_v \o <<"=">> \o S_false
    /\ dest0.verbose = FALSE
    /\ After(1).verbose = TRUE
    /\ dest.verbose = FALSE

Within(text, part) ==
    \E a \in 1..(Len(text) - Len(part) + 1) :
        SubSeq(text, a, a + Len(part) - 1) = part

\* C2: when parse reaches a token whose flag resolves to a definition
\* bound to an int or string destination and the extracted value is empty
\* ("-r=" as well as "-r"), it throws at that token, the message contains
\* the flag text, and the destination is not written.
C2_MissingValue ==
    \A k \in Examined :
        (KindOf(ArgvAt(k)) \in {"int", "string"} /\ Remainder(ArgvAt(k)) = <<>>) =>
            /\ ThrownAt(k)
            /\ FlagPart(ArgvAt(k)) # <<>>
            /\ Within(what, FlagPart(ArgvAt(k)))
            /\ WritesOf(k) = <<>>
            /\ dest[PtrOf(ArgvAt(k))] = Before(k)[PtrOf(ArgvAt(k))]

C2_Witness ==
    /\ pc = "thrown"
    /\ ArgvAt(i) = F_r \o <<"=">>
    /\ i = 2
    /\ writes # <<>>

\* the command line without its unknown tokens, parsed from the same
\* destinations
RECURSIVE RunTokens(_, _, _)
RunTokens(args, d, toks) ==
    IF toks = <<>> THEN [dest |-> d, thrown |-> FALSE]
    ELSE LET e == Effect(args, d, Head(toks))
         IN  IF e.thrown THEN [dest |-> e.dest, thrown |-> TRUE]
             ELSE RunTokens(args, e.dest, Tail(toks))
KnownTokens ==
    SelectSeq(Tail(m_argv), LAMBDA t : KindOf(t) # "unknown")
UnknownFlagsTo(n) ==
    LET unk == SelectSeq(SubSeq(m_argv, 2, n + 1), LAMBDA t : KindOf(t) = "unknown")
    IN  [k \in 1..Len(unk) |-> FlagPart(unk[k])]

\* C3: a token whose flag part is no alias of any definition is not fatal:
\* it yields exactly one diagnostic, writes nothing, and the scan goes on,
\* so that parse ends with the destinations (and the error, if a later
\* token raises one) of the same command line without the unknown tokens.
C3_UnknownSkipped ==
    /\ cerr = UnknownFlagsTo(LastTok)
    /\ \A k \in Examined :
        KindOf(ArgvAt(k)) = "unknown" =>
            /\ ~ThrownAt(k)
            /\ WritesOf(k) = <<>>
            /\ i > k
    /\ pc \in {"returned", "thrown"} =>
        /\ dest = RunTokens(mArguments, dest0, KnownTokens).dest
        /\ (pc = "thrown") = RunTokens(mArguments, dest0, KnownTokens).thrown

C3_Witness ==
    /\ pc = "returned"
    /\ m_argc = 3
    /\ ArgvAt(1) = F_z
    /\ ArgvAt(2) = F_r \o <<"=", "1", "2">>
    /\ cerr = <<F_z>>
    /\ dest.rate = 12

\* C4 as stated: whenever a token with a '=' resolves to a string
\* destination, the destination holds the whole remainder after the first
\* '=' once the token has been processed (an empty remainder included).
C4_Original ==
    \A k \in Examined :
        (KindOf(ArgvAt(k)) = "string" /\ FirstEq(ArgvAt(k)) # 0) =>
            After(k)[PtrOf(ArgvAt(k))] = Remainder(ArgvAt(k))

\* C4 amended: parse splits a token at its first '=' only; for a flag
\* resolving to a string destination and a non-empty remainder the
\* destination receives the whole remainder verbatim, further '=' included
\* ("-n=a=1" assigns "a=1" to the destination of "-n").  An empty
\* remainder assigns nothing: parse throws and the destination keeps its
\* value.
C4_StringVerbatim ==
    \A k \in Examined :
        (KindOf(ArgvAt(k)) = "string" /\ FirstEq(ArgvAt(k)) # 0) =>
            IF Remainder(ArgvAt(k)) # <<>>
            THEN /\ ~ThrownAt(k)
                 /\ WritesOf(k) = <<[tok |-> k, ptr |-> PtrOf(ArgvAt(k)),
                                     val |-> Remainder(ArgvAt(k))]>>
                 /\ After(k)[PtrOf(ArgvAt(k))] = Remainder(ArgvAt(k))
            ELSE /\ ThrownAt(k)
                 /\ After(k)[PtrOf(ArgvAt(k))] = Before(k)[PtrOf(ArgvAt(k))]
                 /\ dest[PtrOf(ArgvAt(k))] = Before(k)[PtrOf(ArgvAt(k))]

C4_Witness ==
    /\ pc = "returned"
    /\ m_argc = 2
    /\ ArgvAt(1) = F_n \o <<"=", "a", "=", "1">>
    /\ dest.name = <<"a", "=", "1">>
    /\ dest0.name = <<"d">>

\* C5: when parse throws at token k, every destination written for tokens
\* 1..k-1 keeps the value it was given (the destinations are the replay of
\* those writes, nothing is rolled back), and nothing is written for token
\* k or any later token.
C5_PartialMutation ==
    pc = "thrown" =>
        /\ \A n \in 1..Len(writes) : writes[n].tok < i
        /\ \A n \in 1..Len(writes) : writes[n].tok \in Examined
        /\ \A k \in Examined : k <= i
        /\ dest = Before(i)
        /\ \A k \in 1..(i - 1) :
              \A n \in 1..Len(WritesOf(k)) :
                 (\A m \in 1..Len(writes) :
                     writes[m].ptr = WritesOf(k)[n].ptr => writes[m].tok <= k)
                 => dest[WritesOf(k)[n].ptr] = WritesOf(k)[n].val

C5_Witness ==
    /\ pc = "thrown"
    /\ i = 2
    /\ ArgvAt(1) = F_n \o <<"=", "a">>
    /\ ArgvAt(2) = F_r
    /\ dest.name = <<"a">>
    /\ dest.rate = dest0.rate

\* text parse-able as a whole as a decimal int: optional sign, then digits
WellFormedInt(v) ==
    LET body == IF v # <<>> /\ v[1] \in {"-", "+"} THEN Tail(v) ELSE v
    IN  body # <<>> /\ \A p \in 1..Len(body) : IsDigit(body[p])
\* the optionally signed decimal integer a text starts with, 0 if it
\* starts with none
Unsigned(v) ==
    LET n == CHOOSE n \in 0..Len(v) :
                 /\ \A p \in 1..n : IsDigit(v[p])
                 /\ n < Len(v) => ~IsDigit(v[n + 1])
        Num[m \in 0..n] ==
            IF m = 0 THEN 0 ELSE DigitVal(v[m]) + 10 * Num[m - 1]
    IN  Num[n]
LeadingNumber(v) ==
    IF v # <<>> /\ v[1] = "-" THEN 0 - Unsigned(Tail(v))
    ELSE IF v # <<>> /\ v[1] = "+" THEN Unsigned(Tail(v))
    ELSE Unsigned(v)

C8_FirstMatchOnly ==
    \A k \in Examined :
        /\ Len(WritesOf(k)) <= 1
        /\ \A n \in 1..Len(WritesOf(k)) :
              /\ KindOf(ArgvAt(k)) \in ValueKinds
              /\ WritesOf(k)[n].ptr = PtrOf(ArgvAt(k))
        /\ \A p \in DOMAIN dest :
              (KindOf(ArgvAt(k)) \notin ValueKinds \/ p # PtrOf(ArgvAt(k)))
                  => After(k)[p] = Before(k)[p]
        /\ KindOf(ArgvAt(k)) = "none" =>
              (WritesOf(k) = <<>> /\ ~ThrownAt(k) /\ i > k)

C8_Witness ==
    /\ pc = "returned"
    /\ mArguments = RegistryA
    /\ m_argc = 3
    /\ ArgvAt(1) = F_h \o <<"=", "a">>
    /\ ArgvAt(2) = F_r \o <<"=", "1", "2">>
    /\ dest.alt = dest0.alt
    /\ dest.rate = 12
    /\ Len(writes) = 1

----------------------------------------------------------------------------
(* Properties of CommandLine::printHelp                                    *)

ArgLines(k) == SelectSeq(os, LAMBDA l : l.arg = k)

\* the help text carried by the lines of an argument: the first line
\* without its flag column, the continuation lines without their padding
RECURSIVE HelpOf(_, _)
HelpOf(lines, n) ==
    IF n > Len(lines) THEN <<>>
    ELSE LET skip == IF n = 1 THEN maxFlagLength ELSE maxFlagLength - 1
         IN  SubSeq(lines[n].text, skip + 1, Len(lines[n].text))
             \o HelpOf(lines, n + 1)

LoopEnded(k) ==
    \/ hpc = "returned"
    \/ hpc \in {"arg", "wrap"} /\ k < argIdx
    \/ hpc = "wrap" /\ k = argIdx /\ spacePos = npos

\* C9: printHelp writes the whole help text of every argument: when the
\* wrap loop of an argument ends (next space position npos) the pending
\* line has just been flushed, because the size_t sum lineWidth wrapped
\* past 60, so the lines of the argument carry its help text to the last
\* word; a help text without a space comes out as exactly one line,
\* whatever its length.
C9_HelpComplete ==
    /\ (hpc = "wrap" /\ spacePos = npos) =>
          /\ lineWidth = 0
          /\ sstr = PadLeft(<<" ">>, maxFlagLength - 1)
          /\ os # <<>> /\ os[Len(os)].arg = argIdx
    /\ hpc = "wrap" => lineWidth <= WrapWidth
    /\ \A k \in 1..Len(mArguments) :
          LoopEnded(k) =>
              /\ HelpOf(ArgLines(k), 1) = mArguments[k].mHelp
              /\ (\A p \in 1..Len(mArguments[k].mHelp) :
                      mArguments[k].mHelp[p] # " ")
                   => Len(ArgLines(k)) = 1

C9_Witness ==
    /\ hpc = "returned"
    /\ Len(mArguments) = 2
    /\ mArguments[1].mHelp = <<"a", " ", "a">>
    /\ mArguments[2].mHelp = Word(61)
    /\ Len(ArgLines(1)) = 1
    /\ Len(ArgLines(2)) = 1
    /\ Len(os) = 3
    /\ Len(os[3].text) = 61 + maxFlagLength

----------------------------------------------------------------------------
(* Properties of the capture loop                                          *)

Cleanup == <<"Pa_StopStream", "Pa_CloseStream", "Pa_Terminate">>

\* C10: process_buffer runs once for each Pa_ReadStream that returned
\* paNoError and for no other result; overflow and timeout keep the loop
\* running (the loop is left only with g_stop set or on another error);
\* after the handler has set g_stop at most one more block is read and at
\* most one is written; then Pa_StopStream, Pa_CloseStream and
\* Pa_Terminate are called in this order, once each.
C10_CaptureLoop ==
    /\ nProcess = (IF cpc = "dispatch" /\ r = "paNoError" THEN nOk - 1 ELSE nOk)
    /\ nOk <= nRead
    /\ cpc \in {"stop", "close", "terminate", "return0"} =>
          (g_stop \/ r = "paOther")
    /\ readAfterStop <= 1
    /\ writeAfterStop <= 1
    /\ cpc \in {"start", "while", "read", "dispatch", "stop"} => paCalls = <<>>
    /\ cpc = "close" => paCalls = SubSeq(Cleanup, 1, 1)
    /\ cpc = "terminate" => paCalls = SubSeq(Cleanup, 1, 2)
    /\ cpc = "return0" => paCalls = Cleanup

C10_Witness ==
    /\ cpc = "return0"
    /\ g_stop
    /\ r = "paNoError"
    /\ nRead = 3
    /\ nOk = 2
    /\ nProcess = 2
    /\ readAfterStop = 1
    /\ writeAfterStop = 1
    /\ paCalls = Cleanup

====
